---------------------------- MODULE Spec2Model ----------------------------
(***************************************************************************)
(* Rotation and camera framing of the hexagonal city (hexa-city).          *)
(*                                                                         *)
(* Home owns currentSide; Controls and Compass change it; CityGroup's      *)
(* side-change effect turns every change into an accumulated target angle  *)
(* and its useFrame callback damps the group's rotation.y towards it.      *)
(* AutoFrameCamera places the camera once per mounted scene.               *)
(*                                                                         *)
(* Angles are integers on a grid of ANGLE_PER_SIDE / 8192 radians, so that *)
(* 2*PI/6 is 8192 units and PI is 3 * 8192 units.  EPSILON = 0.0005 rad is *)
(* 3.91 grid units: on the grid |d| < EPSILON holds exactly when |d| < 4.  *)
(* The frame time dt is counted in half-lives of the damping,              *)
(* ln(2) / SMOOTHING seconds, so that 1 - exp(-SMOOTHING * dt) is the      *)
(* rational 1 - 2^(-dt).  Products are rounded towards zero.               *)
(***************************************************************************)
EXTENDS Integers, Sequences, FiniteSets, TLC

\* ---------------------------------------------------------------- bounds
\* side changes the user may issue in the specification with the frame loop
MaxChanges == 2
\* side changes the user may issue in the navigation-only specification
MaxNavChanges == 6
\* longest frame time, in half-lives of the damping
MaxDt == 2
\* largest bounding-sphere radius of the city, in world units
MaxRadius == 7
\* viewport-width changes while the camera is observed
MaxResizes == 2
\* scene instances (mounts of the gated scene) while the camera is observed
MaxInstances == 2
\* largest height of the bounding-sphere center, in world units
MaxCenter == 1

\* ------------------------------------------------------------- constants
SIDES == 6
ANGLE_PER_SIDE == 8192
EPSILON == 4
PI == 3 * ANGLE_PER_SIDE
TWO_PI == 2 * PI

SideSet == 0 .. (SIDES - 1)
DtSet == 0 .. MaxDt

\* Camera framing.  Distances are integers in units of 1 / DIST_UNITS of a
\* world unit, DIST_UNITS = 20 * TAN_HALF_FOV_E5, so that the division by
\* tan(fov / 2) = TAN_HALF_FOV_E5 / 100000 and the factor 1.35 are exact.
TAN_HALF_FOV_E5 == 76733
FRAMING_PADDING_TENTHS == 7
MIN_CAMERA_DISTANCE == 5
ZOOM_IN_FACTOR_PCT == 33
MOBILE_BREAKPOINT == 1000
MOBILE_DISTANCE_FACTOR_PCT == 135
DIST_UNITS == 20 * TAN_HALF_FOV_E5

WidthSet == { MOBILE_BREAKPOINT - 1, MOBILE_BREAKPOINT, MOBILE_BREAKPOINT + 400 }

\* what AutoFrameCamera can find in the group: no children yet, children
\* with an empty bounding box, or a bounding sphere of some radius and center
SceneSet ==
  { [children |-> FALSE, empty |-> TRUE, radius |-> 0, center |-> 0],
    [children |-> TRUE, empty |-> TRUE, radius |-> 0, center |-> 0] }
  \cup { [children |-> TRUE, empty |-> FALSE, radius |-> r, center |-> c] :
           r \in 0 .. MaxRadius, c \in 0 .. MaxCenter }

\* --------------------------------------------------------------- helpers
Abs(x) == IF x < 0 THEN -x ELSE x

\* JavaScript's %: the remainder takes the sign of the dividend
JsRem(a, b) == IF a >= 0 THEN a % b ELSE -((-a) % b)

\* a product a * num / den rounded towards zero
TruncDiv(a, b) == IF a >= 0 THEN a \div b ELSE -((-a) \div b)

Max(a, b) == IF a >= b THEN a ELSE b

RECURSIVE Pow2(_)
Pow2(n) == IF n = 0 THEN 1 ELSE 2 * Pow2(n - 1)

\* ------------------------------------------------------------ rotation.ts
getRotationAngle(side) == side * ANGLE_PER_SIDE

getNextSide(current) == JsRem(current + 1, SIDES)

\* variant: no + SIDES before the remainder
getPrevSideNoOffset(current) == JsRem(current - 1, SIDES)

getPrevSide(current) == JsRem(current - 1 + SIDES, SIDES)

\* the markers, one per side: their ids are the lower-cased labels behind "side-"
SIDE_LABELS == << "N", "NE", "SE", "S", "SW", "NW" >>

ToLowerCase(label) ==
  CASE label = "N" -> "n"
    [] label = "NE" -> "ne"
    [] label = "SE" -> "se"
    [] label = "S" -> "s"
    [] label = "SW" -> "sw"
    [] label = "NW" -> "nw"

MARKERS ==
  [i \in 1 .. Len(SIDE_LABELS) |->
     [id |-> "side-" \o ToLowerCase(SIDE_LABELS[i]), title |-> SIDE_LABELS[i] \o " Pillar"]]

MarkerSet == { MARKERS[i] : i \in 1 .. Len(MARKERS) }

\* null, for a marker id and for a marker
NULL == "null"
NoMarker == [id |-> NULL, title |-> NULL]

\* ------------------------------------------------------------------ state
VARIABLES
  currentSide,      \* Home: useState(0)
  prevSideRef,      \* CityGroup: prevSideRef.current
  accumulatedRef,   \* CityGroup: accumulatedRef.current
  rotationY,        \* groupRef.current.rotation.y
  effectPending,    \* the [currentSide] effect is scheduled and has not run yet
  sideLog,          \* the sides the effect has recorded in prevSideRef, oldest first
  budget,           \* side changes the user may still issue
  mounted,          \* LoaderGate renders the scene: CityGroup and AutoFrameCamera exist
  instance,         \* which mount of the scene this is
  scene,            \* what groupRef.current holds (see SceneSet)
  width,            \* useThree().size.width
  resizesLeft,      \* viewport-width changes still to come
  hasFramed,        \* AutoFrameCamera: hasFramed.current
  framePending,     \* AutoFrameCamera's effect is scheduled and has not run yet
  rafQueue,         \* outstanding requestAnimationFrame callbacks: id, and size.width in the closure
  cleanupId,        \* the id the cleanup of the effect's last run will cancel, 0 if it returned none
  nextRafId,        \* the id the next requestAnimationFrame returns
  camera,           \* the camera: distance from the center it looks at (0: the Canvas default pose)
  controls,         \* OrbitControls: target, minDistance (in hundredths of a distance unit), maxDistance
  framed,           \* the framing computations of this instance: radius and width each one read
  selectedMarkerId, \* CityScene: useState<string | null>(null)
  selectedMarker    \* Home: useState<MarkerData | null>(null)

cityVars == << currentSide, prevSideRef, accumulatedRef, rotationY, effectPending,
               sideLog, budget >>

cameraVars == << mounted, instance, scene, width, resizesLeft, hasFramed,
                 framePending, rafQueue, cleanupId, nextRafId, camera, controls, framed >>

\* a callback of the effect is outstanding
rafPending == rafQueue # {}

selVars == << selectedMarkerId, selectedMarker >>

vars == << cityVars, cameraVars, selVars >>

\* ------------------------------------------------- CityGroup: side changes
\* the wrap of a direct jump: ((delta + PI) % (2 * PI)) - PI
WrapDelta(delta) == JsRem(delta + PI, TWO_PI) - PI

\* what the effect adds to accumulatedRef for a change prev -> side
SideDelta(prev, side) ==
  IF getNextSide(prev) = side THEN ANGLE_PER_SIDE
  ELSE IF getPrevSide(prev) = side THEN -ANGLE_PER_SIDE
  ELSE WrapDelta(getRotationAngle(side) - getRotationAngle(prev))

\* variant: prevSideRef is not brought up to date
OnSideChangedStalePrev(prev, side, acc) ==
  IF prev = side THEN [acc |-> acc, prev |-> prev]
  ELSE [acc |-> acc + SideDelta(prev, side), prev |-> prev]

\* variant: adjacent steps are reduced modulo 2 * PI like the canonical angle
OnSideChangedReduced(prev, side, acc) ==
  IF prev = side THEN [acc |-> acc, prev |-> prev]
  ELSE [acc |-> JsRem(acc + SideDelta(prev, side), TWO_PI), prev |-> side]

\* variant: no early return, and the forward step is the fall-through branch
OnSideChangedNoGuard(prev, side, acc) ==
  LET d == IF getPrevSide(prev) = side THEN -ANGLE_PER_SIDE
           ELSE IF Abs(side - prev) \in 2 .. (SIDES - 2)
                THEN WrapDelta(getRotationAngle(side) - getRotationAngle(prev))
                ELSE ANGLE_PER_SIDE
  IN [acc |-> acc + d, prev |-> side]

\* the body of the effect: [accumulated, prev] after it ran with currentSide = side
OnSideChanged(prev, side, acc) ==
  IF prev = side THEN [acc |-> acc, prev |-> prev]
  ELSE [acc |-> acc + SideDelta(prev, side), prev |-> side]

SideChangeEffect ==
  /\ mounted
  /\ effectPending
  /\ LET r == OnSideChanged(prevSideRef, currentSide, accumulatedRef)
     IN /\ accumulatedRef' = r.acc
        /\ prevSideRef' = r.prev
        /\ sideLog' = IF r.prev = prevSideRef THEN sideLog ELSE Append(sideLog, r.prev)
  /\ effectPending' = FALSE
  /\ UNCHANGED << currentSide, rotationY, budget >>
  /\ UNCHANGED cameraVars
  /\ UNCHANGED selVars

\* ------------------------------------------------------ Home: setCurrentSide
\* React runs a pending effect before it renders the next state, and re-runs
\* the [currentSide] effect only when currentSide differs from the last render.
SetCurrentSide(side) ==
  /\ budget > 0
  /\ ~effectPending
  /\ currentSide' = side
  /\ effectPending' = (mounted /\ side # currentSide)
  /\ budget' = budget - 1
  /\ UNCHANGED << prevSideRef, accumulatedRef, rotationY, sideLog >>
  /\ UNCHANGED cameraVars
  /\ UNCHANGED selVars

PressNext == SetCurrentSide(getNextSide(currentSide))

PressPrev == SetCurrentSide(getPrevSide(currentSide))

CompassClick == \E i \in SideSet : SetCurrentSide(i)

\* ---------------------------------------------------- CityGroup: useFrame
\* variant: the linear factor SMOOTHING * dt (ln 2 = 0.693 per half-life)
DampFactorLinear(dt) == [num |-> 693 * dt, den |-> 1000]

\* variant: the exponent does not vanish with dt
DampFactorOffByOne(dt) == [num |-> Pow2(dt + 1) - 1, den |-> Pow2(dt + 1)]

\* 1 - exp(-SMOOTHING * dt) as the fraction num / den
DampFactor(dt) == [num |-> Pow2(dt) - 1, den |-> Pow2(dt)]

\* variant: no snap branch
FrameRotationNoSnap(current, target, dt) ==
  LET delta == target - current
      f == DampFactor(dt)
  IN current + TruncDiv(delta * f.num, f.den)

\* rotation.y after one frame
FrameRotation(current, target, dt) ==
  LET delta == target - current
      f == DampFactor(dt)
  IN IF Abs(delta) < EPSILON THEN target
     ELSE current + TruncDiv(delta * f.num, f.den)

FrameTick(dt) ==
  /\ mounted
  /\ rotationY' = FrameRotation(rotationY, accumulatedRef, dt)
  /\ UNCHANGED << currentSide, prevSideRef, accumulatedRef, effectPending,
                  sideLog, budget >>
  /\ UNCHANGED cameraVars
  /\ UNCHANGED selVars

PausedFrame == FrameTick(0)

Frame == \E dt \in DtSet \ {0} : FrameTick(dt)

\* ------------------------------------------------------- AutoFrameCamera
\* variant: the minimum distance is applied after the mobile factor
FramingDistanceFloorLast(radius, w) ==
  LET padded == radius * FRAMING_PADDING_TENTHS
      fit == padded * (DIST_UNITS \div TAN_HALF_FOV_E5) * (100000 \div 10)
      scaled == IF w < MOBILE_BREAKPOINT
                THEN (fit * MOBILE_DISTANCE_FACTOR_PCT) \div 100 ELSE fit
  IN Max(scaled, MIN_CAMERA_DISTANCE * DIST_UNITS)

\* the camera distance for a bounding sphere of the given radius (world
\* units) on a viewport of width w, in distance units
FramingDistance(radius, w) ==
  LET padded == radius * FRAMING_PADDING_TENTHS      \* tenths of a world unit
      \* (padded / 10) / (TAN_HALF_FOV_E5 / 100000) world units
      fit == padded * (DIST_UNITS \div TAN_HALF_FOV_E5) * (100000 \div 10)
      distance == Max(fit, MIN_CAMERA_DISTANCE * DIST_UNITS)
  IN IF w < MOBILE_BREAKPOINT
     THEN (distance * MOBILE_DISTANCE_FACTOR_PCT) \div 100
     ELSE distance

\* variant: the effect does not look at hasFramed
ShouldScheduleNoLatch(framedFlag, isMounted, sc) == isMounted /\ sc.children

\* the guard of the effect: it schedules the deferred check unless it returns early
ShouldSchedule(framedFlag, isMounted, sc) ==
  ~(framedFlag \/ ~isMounted \/ ~sc.children)

\* variant: the effect returns no cleanup
CancelRafNever(queue, id) == queue

\* cancelAnimationFrame(id)
CancelRaf(queue, id) == { r \in queue : r.id # id }

\* variant: minDistance and maxDistance are exchanged
ConfigureControlsSwapped(distance, center) ==
  [target |-> center, minDistance |-> distance * 100,
   maxDistance |-> (distance * ZOOM_IN_FACTOR_PCT) \div 100]

\* the OrbitControls settings of a framing
ConfigureControls(distance, center) ==
  [target |-> center, minDistance |-> distance * ZOOM_IN_FACTOR_PCT,
   maxDistance |-> distance]

\* a new OrbitControls: target at the origin, no zoom limits set (0)
DefaultControls == [target |-> 0, minDistance |-> 0, maxDistance |-> 0]

\* the effect, preceded by the cleanup of its previous run
FramingEffect ==
  /\ mounted
  /\ framePending
  /\ framePending' = FALSE
  /\ LET cleaned == CancelRaf(rafQueue, cleanupId)
     IN IF ShouldSchedule(hasFramed, mounted, scene)
        THEN /\ rafQueue' = cleaned \cup {[id |-> nextRafId, width |-> width]}
             /\ cleanupId' = nextRafId
             /\ nextRafId' = nextRafId + 1
        ELSE /\ rafQueue' = cleaned
             /\ cleanupId' = 0
             /\ UNCHANGED nextRafId
  /\ UNCHANGED << mounted, instance, scene, width, resizesLeft, hasFramed,
                  camera, controls, framed >>
  /\ UNCHANGED cityVars
  /\ UNCHANGED selVars

\* a requestAnimationFrame callback runs.  groupRef.current and
\* controlsRef.current are null exactly while the scene is not mounted.
FramingCallback ==
  \E r \in rafQueue :
    /\ rafQueue' = rafQueue \ {r}
    /\ IF ~mounted \/ scene.empty
       THEN UNCHANGED << hasFramed, camera, controls, framed >>
       ELSE LET distance == FramingDistance(scene.radius, r.width)
            IN /\ camera' = distance
               /\ controls' = ConfigureControls(distance, scene.center)
               /\ hasFramed' = TRUE
               /\ framed' = Append(framed, [radius |-> scene.radius, width |-> r.width,
                                            center |-> scene.center])
    /\ UNCHANGED << mounted, instance, scene, width, resizesLeft, framePending,
                    cleanupId, nextRafId >>
    /\ UNCHANGED cityVars
    /\ UNCHANGED selVars

\* the viewport changes width: size.width is a dependency of the effect
Resize ==
  /\ resizesLeft > 0
  /\ \E w \in WidthSet \ {width} : width' = w
  /\ resizesLeft' = resizesLeft - 1
  /\ framePending' = mounted
  /\ UNCHANGED << mounted, instance, scene, hasFramed, rafQueue, cleanupId, nextRafId,
                  camera, controls, framed >>
  /\ UNCHANGED cityVars
  /\ UNCHANGED selVars

\* models attach to the group, or their geometry arrives
Populate ==
  /\ mounted
  /\ \E sc \in SceneSet :
       /\ \/ ~scene.children /\ sc.children
          \/ scene.empty /\ ~sc.empty
       /\ scene' = sc
  /\ UNCHANGED << mounted, instance, width, resizesLeft, hasFramed, framePending,
                  rafQueue, cleanupId, nextRafId, camera, controls, framed >>
  /\ UNCHANGED cityVars
  /\ UNCHANGED selVars

\* the scene unmounts: the cleanup of the effect cancels the callback, and
\* the effects of CityGroup no longer run
Unmount ==
  /\ mounted
  /\ mounted' = FALSE
  /\ rafQueue' = CancelRaf(rafQueue, cleanupId)
  /\ cleanupId' = 0
  /\ framePending' = FALSE
  /\ effectPending' = FALSE
  /\ UNCHANGED << instance, scene, width, resizesLeft, hasFramed, nextRafId,
                  camera, controls, framed >>
  /\ UNCHANGED << currentSide, prevSideRef, accumulatedRef, rotationY, sideLog, budget >>
  /\ UNCHANGED selVars

\* the scene mounts again: fresh refs and a new OrbitControls, the Canvas
\* keeps its camera
Mount ==
  /\ ~mounted
  /\ instance < MaxInstances
  /\ mounted' = TRUE
  /\ instance' = instance + 1
  /\ scene' \in SceneSet
  /\ hasFramed' = FALSE
  /\ framed' = << >>
  /\ framePending' = TRUE
  /\ prevSideRef' = currentSide
  /\ accumulatedRef' = getRotationAngle(currentSide)
  /\ rotationY' = 0
  /\ effectPending' = TRUE
  /\ sideLog' = << currentSide >>
  /\ controls' = DefaultControls
  /\ UNCHANGED << width, resizesLeft, rafQueue, cleanupId, nextRafId, camera >>
  /\ UNCHANGED << currentSide, budget >>
  /\ UNCHANGED selVars

\* ---------------------------------------------------------------- markers
\* CityScene's updater: the id of the clicked marker, or null when it was selected
SceneToggle(prev, marker) == IF prev = marker.id THEN NULL ELSE marker.id

\* prev?.id: undefined for null, which equals no marker's id
OptionalId(prev) == IF prev = NoMarker THEN NULL ELSE prev.id

HomeToggleAlwaysSelect(prev, marker) == marker

\* Home's updater: the clicked marker, or null when it was selected
HomeToggle(prev, marker) == IF OptionalId(prev) = marker.id THEN NoMarker ELSE marker

\* a click on a marker's badge: Marker's handleClick calls CityScene's
\* handleMarkerSelect, which calls Home's; the markers exist while the scene
\* is mounted
MarkerClick(marker) ==
  /\ mounted
  /\ selectedMarkerId' = SceneToggle(selectedMarkerId, marker)
  /\ selectedMarker' = HomeToggle(selectedMarker, marker)
  /\ UNCHANGED cityVars
  /\ UNCHANGED cameraVars

ClickMarker == \E marker \in MarkerSet : MarkerClick(marker)

\* a click on the Canvas that hits no object: handlePointerMissed, which
\* calls Home's handleDeselect
PointerMissed ==
  /\ selectedMarkerId' = NULL
  /\ selectedMarker' = NoMarker
  /\ UNCHANGED cityVars
  /\ UNCHANGED cameraVars

\* --------------------------------------------------------- specifications
\* the state after CityScene and Home are constructed: nothing is selected
InitSelection ==
  /\ selectedMarkerId = NULL
  /\ selectedMarker = NoMarker

\* the state after Home and CityGroup are constructed: the mount run of the
\* effect is still to come
InitCity(n) ==
  /\ currentSide = 0
  /\ prevSideRef = currentSide
  /\ accumulatedRef = getRotationAngle(currentSide)
  /\ rotationY = 0
  /\ effectPending = TRUE
  /\ sideLog = << currentSide >>
  /\ budget = n

\* the state after AutoFrameCamera is constructed: its effect is still to come
InitCamera(widths, scenes, resizes) ==
  /\ mounted = TRUE
  /\ instance = 1
  /\ scene \in scenes
  /\ width \in widths
  /\ resizesLeft = resizes
  /\ hasFramed = FALSE
  /\ framePending = TRUE
  /\ rafQueue = {}
  /\ cleanupId = 0
  /\ nextRafId = 1
  /\ camera = 0
  /\ controls = DefaultControls
  /\ framed = << >>

\* the loaded city on a desktop viewport
LoadedScene == [children |-> TRUE, empty |-> FALSE, radius |-> MaxRadius, center |-> 0]

InitStill == InitCamera({MOBILE_BREAKPOINT + 400}, {LoadedScene}, 0)

Init == InitCity(MaxChanges) /\ InitStill /\ InitSelection

Next ==
  \/ PressNext
  \/ PressPrev
  \/ CompassClick
  \/ SideChangeEffect
  \/ PausedFrame
  \/ Frame

Spec == Init /\ [][Next]_vars

\* the frame loop runs for as long as the scene is mounted
SpecLive == Spec /\ WF_vars(Frame)

\* navigation without frames in between
InitNav == InitCity(MaxNavChanges) /\ InitStill /\ InitSelection

NextNav ==
  \/ PressNext
  \/ PressPrev
  \/ CompassClick
  \/ SideChangeEffect

SpecNav == InitNav /\ [][NextNav]_vars

\* the camera over mounts, resizes and the population of the group
InitCam == InitCity(0) /\ InitCamera(WidthSet, SceneSet, MaxResizes) /\ InitSelection

NextCam ==
  \/ FramingEffect
  \/ FramingCallback
  \/ Resize
  \/ Populate
  \/ Unmount
  \/ Mount

SpecCam == InitCam /\ [][NextCam]_vars

\* React runs every effect it has scheduled, and the browser every animation
\* frame callback that was not cancelled
SpecCamLive == SpecCam /\ WF_vars(FramingEffect) /\ WF_vars(FramingCallback)

\* marker selection, with navigation and remounts of the scene in between
InitSel == InitCity(MaxChanges) /\ InitStill /\ InitSelection

NextSel ==
  \/ ClickMarker
  \/ PointerMissed
  \/ PressNext
  \/ PressPrev
  \/ CompassClick
  \/ SideChangeEffect
  \/ Unmount
  \/ Mount

SpecSel == InitSel /\ [][NextSel]_vars

\* ----------------------------------------------------------------- claims
IsFrame == \E dt \in DtSet : FrameTick(dt)

Adjacent(prev, side) == side \in {prev, getNextSide(prev), getPrevSide(prev)}

RECURSIVE AllSteps(_, _)
\* every consecutive pair of log is related by step (+1 forward, -1 backward)
AllSteps(log, step) ==
  \/ Len(log) < 2
  \/ /\ log[2] = (log[1] + step + SIDES) % SIDES
     /\ AllSteps(Tail(log), step)

\* C1: once the side-change effect has processed a change, the accumulated
\* rotation is congruent to the canonical angle of the current side modulo
\* 2 * PI, whatever mix of Next, Previous and compass clicks led there.
C1_AccumulatedCongruent ==
  ~effectPending =>
    /\ prevSideRef = currentSide
    /\ (accumulatedRef - getRotationAngle(currentSide)) % TWO_PI = 0

C1_Witness ==
  /\ ~effectPending
  /\ Len(sideLog) >= 4
  /\ currentSide = 2
  /\ accumulatedRef = getRotationAngle(2) - 2 * TWO_PI

\* C2: a non-adjacent side change adds the canonical-angle difference by the
\* shortest arc: what the effect adds has magnitude at most PI.
C2_ShortestArc ==
  [][(SideChangeEffect /\ ~Adjacent(prevSideRef, currentSide))
       => /\ Abs(accumulatedRef' - accumulatedRef) <= PI
          /\ (accumulatedRef' - accumulatedRef
                - (getRotationAngle(currentSide) - getRotationAngle(prevSideRef)))
               % TWO_PI = 0]_vars

\* C3: adjacent side changes accumulate and are never reduced modulo 2 * PI:
\* a forward step (5 -> 0 included) adds exactly +ANGLE_PER_SIDE, a backward
\* step (0 -> 5 included) exactly -ANGLE_PER_SIDE, so a navigation that the
\* effect saw as forward steps only, such as 0,1,2,3,4,5,0, leaves the
\* accumulated rotation at the number of steps times ANGLE_PER_SIDE (2 * PI
\* after six), and likewise backwards.
C3_AdjacentStepsAccumulate ==
  /\ [][(SideChangeEffect /\ currentSide # prevSideRef)
          => /\ getNextSide(prevSideRef) = currentSide
                  => accumulatedRef' = accumulatedRef + ANGLE_PER_SIDE
             /\ getPrevSide(prevSideRef) = currentSide
                  => accumulatedRef' = accumulatedRef - ANGLE_PER_SIDE]_vars
  /\ [](AllSteps(sideLog, 1)
          => accumulatedRef = (Len(sideLog) - 1) * ANGLE_PER_SIDE)
  /\ [](AllSteps(sideLog, -1)
          => accumulatedRef = -(Len(sideLog) - 1) * ANGLE_PER_SIDE)
  /\ [](sideLog = << 0, 1, 2, 3, 4, 5, 0 >> => accumulatedRef = TWO_PI)

C3_Witness ==
  /\ sideLog = << 0, 1, 2, 3, 4, 5, 0 >>
  /\ ~effectPending
  /\ currentSide = 0
  /\ accumulatedRef = TWO_PI

\* C5 as stated: a frame with dt = 0 leaves rotation.y unchanged, whatever
\* the orientation and the target are.
C5_PausedFrameUnchanged ==
  [][PausedFrame => rotationY' = rotationY]_vars

\* C5 as amended: a frame with dt = 0 leaves rotation.y unchanged when it is
\* at least EPSILON away from the target or equal to it, and sets it to the
\* target when it is closer than EPSILON.
C5_PausedFrameAmended ==
  [][PausedFrame
       => rotationY' = IF Abs(accumulatedRef - rotationY) < EPSILON
                       THEN accumulatedRef ELSE rotationY]_vars

C5_Witness ==
  /\ ~effectPending
  /\ budget = MaxChanges - 1
  /\ Abs(accumulatedRef - rotationY) >= EPSILON
  /\ rotationY # 0

\* C6: a frame that starts with rotation.y closer than EPSILON to the target
\* sets it to the target exactly, for any dt, and a frame that starts at the
\* target leaves it there.
C6_SnapWithinEpsilon ==
  [][(IsFrame /\ Abs(accumulatedRef - rotationY) < EPSILON)
       => rotationY' = accumulatedRef]_vars

C6_Witness ==
  /\ rotationY = accumulatedRef
  /\ accumulatedRef # 0

\* C7: with the target held fixed, every frame with dt > 0 that starts at
\* least EPSILON away from the target strictly reduces the distance and
\* stays on the same side of the target; and once the side changes have
\* ended (the budget bounds them) the orientation reaches the target after
\* finitely many frames and stays there.
C7_DampingConverges ==
  /\ [][(Frame /\ Abs(accumulatedRef - rotationY) >= EPSILON)
          => /\ Abs(accumulatedRef - rotationY') < Abs(accumulatedRef - rotationY)
             /\ IF accumulatedRef > rotationY
                THEN rotationY' <= accumulatedRef
                ELSE rotationY' >= accumulatedRef]_vars
  /\ <>[](rotationY = accumulatedRef)

C7_Witness ==
  /\ budget = 0
  /\ Len(sideLog) = MaxChanges + 1
  /\ rotationY = accumulatedRef
  /\ rotationY # getRotationAngle(currentSide)

\* C8: getNextSide and getPrevSide are inverse to each other on the sides and
\* stay within 0 .. 5.
C8_NextPrevInverse ==
  /\ getNextSide(currentSide) \in SideSet
  /\ getPrevSide(currentSide) \in SideSet
  /\ getNextSide(getPrevSide(currentSide)) = currentSide
  /\ getPrevSide(getNextSide(currentSide)) = currentSide

C8_Witness ==
  /\ sideLog = << 0, 5, 0 >>
  /\ currentSide = 0
  /\ ~effectPending

\* C9: a run of the effect that finds currentSide equal to the recorded
\* previous side, and a compass click on the active segment, leave the
\* accumulated rotation and the recorded previous side unchanged.
C9_SameSideNoOp ==
  /\ [][(SideChangeEffect /\ prevSideRef = currentSide)
          => UNCHANGED << accumulatedRef, prevSideRef >>]_vars
  /\ [][(CompassClick /\ currentSide' = currentSide)
          => UNCHANGED << accumulatedRef, prevSideRef, effectPending >>]_vars

C9_Witness ==
  /\ ~effectPending
  /\ budget = MaxNavChanges - 3
  /\ sideLog = << 0, 4 >>
  /\ accumulatedRef = -2 * ANGLE_PER_SIDE

\* C4: within one mounted scene instance hasFramed never goes back from TRUE
\* to FALSE, and the framing computation runs at most once, however often
\* the effect is re-run afterwards (a change of the viewport width re-runs it).
C4_FramedLatch ==
  /\ [][(hasFramed /\ instance' = instance) => hasFramed']_vars
  /\ [](Len(framed) <= 1)
  /\ [](hasFramed <=> Len(framed) = 1)

C4_Witness ==
  /\ mounted
  /\ hasFramed
  /\ Len(framed) = 1
  /\ ~framePending
  /\ ~rafPending
  /\ resizesLeft = 0
  /\ width # framed[1].width

\* 0.7 * radius / tan(fov / 2) in distance units
FitDistance(radius) == radius * FRAMING_PADDING_TENTHS * 2 * 100000

\* C10: the camera distance of a framing is max(0.7 R / tan(fov/2), 5) on a
\* viewport of width >= 1000 and exactly 1.35 times that on a narrower one:
\* it is never below 5, and never below 6.75 on a narrow viewport.
C10_FramingDistance ==
  framed # << >> =>
    LET f == framed[Len(framed)]
        base == Max(FitDistance(f.radius), MIN_CAMERA_DISTANCE * DIST_UNITS)
    IN /\ f.width >= MOBILE_BREAKPOINT => camera = base
       /\ f.width < MOBILE_BREAKPOINT =>
            /\ camera * 100 = MOBILE_DISTANCE_FACTOR_PCT * base
            /\ camera * 100 >= 675 * DIST_UNITS
       /\ camera >= MIN_CAMERA_DISTANCE * DIST_UNITS

C10_Witness ==
  /\ framed # << >>
  /\ framed[1].width < MOBILE_BREAKPOINT
  /\ framed[1].radius = 1
  /\ camera * 100 = 675 * DIST_UNITS

\* C11: a framing attempt that finds the group without children or with an
\* empty bounding box leaves hasFramed FALSE and the camera and the controls
\* as they were, and framing is retried: once the group is populated, the
\* scene, while it stays mounted, is eventually framed.
C11_RetryUntilFramed ==
  /\ [][((FramingEffect /\ ~scene.children) \/ (FramingCallback /\ scene.empty))
          => UNCHANGED << hasFramed, camera, controls >>]_vars
  /\ (mounted /\ ~hasFramed /\ ~scene.empty) ~> (hasFramed \/ ~mounted)

\* C12: whenever hasFramed is set, the framing that set it has configured
\* the orbit controls: their target is the center of the bounding sphere,
\* minDistance is 0.33 times and maxDistance is the distance at which the
\* camera was placed, so that minDistance <= maxDistance.
C12_ControlsConfigured ==
  hasFramed =>
    /\ Len(framed) = 1
    /\ controls.target = framed[1].center
    /\ controls.minDistance = camera * ZOOM_IN_FACTOR_PCT
    /\ controls.maxDistance = camera
    /\ controls.minDistance <= controls.maxDistance * 100
    /\ camera > 0

C12_Witness ==
  /\ hasFramed
  /\ mounted
  /\ instance = 2
  /\ framed[1].center = MaxCenter
  /\ controls.target = MaxCenter
  /\ controls.maxDistance = camera
  /\ controls.minDistance > 0

\* C13: the deferred framing check is cancelled when the scene unmounts or
\* the effect runs again before it fires: at most one callback is
\* outstanding, it is the one of the effect's latest run, none is
\* outstanding and none runs while the scene is not mounted, and the camera
\* and the controls are not touched while it stays unmounted.
C13_DeferredCheckCancelled ==
  /\ [](Cardinality(rafQueue) <= 1)
  /\ [](\A r \in rafQueue : r.id = cleanupId)
  /\ [](~mounted => rafQueue = {})
  /\ [][FramingCallback => mounted]_vars
  /\ [][(~mounted /\ ~mounted') => UNCHANGED << camera, controls, hasFramed >>]_vars

C13_Witness ==
  /\ ~mounted
  /\ instance = 1
  /\ resizesLeft = MaxResizes - 1
  /\ nextRafId = 3
  /\ ~hasFramed
  /\ ~scene.empty
  /\ rafQueue = {}

\* C14: the two copies of the marker selection agree: Home's selected marker
\* is null exactly when CityScene's selected marker id is null, and
\* otherwise carries that id; a click on the selected marker clears both, a
\* click on another marker switches both to it, and a missed click clears
\* both.
C14_SelectionAgrees ==
  /\ [](selectedMarker \in MarkerSet \cup {NoMarker})
  /\ [](selectedMarker = NoMarker <=> selectedMarkerId = NULL)
  /\ [](selectedMarker # NoMarker => selectedMarker.id = selectedMarkerId)
  /\ [][\A marker \in MarkerSet :
          MarkerClick(marker)
            => IF selectedMarkerId = marker.id
                 THEN selectedMarkerId' = NULL /\ selectedMarker' = NoMarker
                 ELSE selectedMarkerId' = marker.id /\ selectedMarker' = marker]_vars
  /\ [][PointerMissed => (selectedMarkerId' = NULL /\ selectedMarker' = NoMarker)]_vars

C14_Witness ==
  /\ mounted
  /\ instance = 2
  /\ selectedMarkerId = "side-sw"
  /\ selectedMarker = MARKERS[5]
  /\ selectedMarker.title = "SW Pillar"


=============================================================================
